---------------------------- MODULE Spec2Model ----------------------------
(***************************************************************************)
(* A model of base/api.py: the request handler SimpleAPIHandler, its       *)
(* cookie rendering and cookie parsing, and the two ways the server is     *)
(* run (run, run_async).                                                   *)
(*                                                                         *)
(* Python values are modelled as follows.                                  *)
(*   - None is PyNone; a str that may be None is PyStr(s).                 *)
(*   - A str the code only copies or concatenates is a TLA+ string.        *)
(*   - A str the code takes apart (the Cookie request header) is a         *)
(*     sequence of one-character strings.                                  *)
(*   - A dict is the sequence of its <<key, value>> items in insertion     *)
(*     order, with no key twice.                                           *)
(***************************************************************************)
EXTENDS Integers, Sequences, FiniteSets, TLC

VARIABLES
    mode,        \* "sync": run() was called; "async": asyncio.run(run_async())
    caller,      \* position of the calling thread (run) or coroutine (run_async)
    pool,        \* the ThreadPoolExecutor of run_async: "none", "open", "shutdown"
    loopThread,  \* what the event-loop thread is doing: "none", "coroutine", "idle", "blocked"
    server,      \* httpd: [thread, state] of the thread inside serve_forever
    arrived,     \* number of client connections that reached the listening socket
    accepted,    \* number of connections the accept loop has taken
    handlers,    \* connection id -> the SimpleAPIHandler instance working on it
    exchange,    \* a finished exchange kept for comparison: [req, conn, wfile] or NoExchange
    arg,         \* the arguments of the function under test (pure-function specifications)
    ret          \* its return value / effect, or NotReturned

vars == <<mode, caller, pool, loopThread, server, arrived, accepted, handlers,
          exchange, arg, ret>>

serverVars == <<mode, caller, pool, loopThread, server, arrived, accepted, handlers, exchange>>

---------------------------------------------------------------------------
(* Bounds of the model *)

\* connections that arrive during one run of the server
MaxRequests == 3
\* longest Cookie header enumerated character by character
MaxHeaderLen == 5
\* most items in the dict handed to set_cookies
MaxCookies == 2

---------------------------------------------------------------------------
(* Python values *)

PyNone == [t |-> "none", v |-> ""]

PyStr(s) == [t |-> "str", v |-> s]

PyDatetime(y, mo, d, h, mi, s) ==
    [t |-> "datetime", v |-> "", year |-> y, month |-> mo, day |-> d,
     hour |-> h, minute |-> mi, second |-> s]

\* bool(x) of an Optional[str] or datetime: None and "" are falsy
Truthy(x) ==
    CASE x.t = "none" -> FALSE
      [] x.t = "str" -> Len(x.v) > 0
      [] x.t = "datetime" -> TRUE

\* a str as the sequence of its characters is written as a tuple of 1-character strings
WHITESPACE == {" ", "\t"}

RECURSIVE lstrip(_)
lstrip(s) ==
    IF s # <<>> /\ Head(s) \in WHITESPACE THEN lstrip(Tail(s)) ELSE s

RECURSIVE rstrip(_)
rstrip(s) ==
    IF s # <<>> /\ s[Len(s)] \in WHITESPACE THEN rstrip(SubSeq(s, 1, Len(s) - 1)) ELSE s

\* str.strip()
strip(s) == rstrip(lstrip(s))

\* sep in s
contains(s, sep) == \E i \in 1..Len(s) : s[i] = sep

\* s.find(sep) + 1, 0 when absent
RECURSIVE find(_, _, _)
find(s, sep, i) ==
    IF i > Len(s) THEN 0
    ELSE IF s[i] = sep THEN i
    ELSE find(s, sep, i + 1)

\* s.split(sep): always at least one piece
RECURSIVE split(_, _)
split(s, sep) ==
    LET i == find(s, sep, 1)
    IN  IF i = 0 THEN <<s>>
        ELSE <<SubSeq(s, 1, i - 1)>> \o split(SubSeq(s, i + 1, Len(s)), sep)

\* faulty variant: cut at the last sep, as s.rsplit(sep, 1)
split1_at_last(s, sep) ==
    LET last == IF contains(s, sep)
                THEN CHOOSE i \in 1..Len(s) :
                         s[i] = sep /\ \A j \in (i + 1)..Len(s) : s[j] # sep
                ELSE 0
    IN  IF last = 0 THEN <<s>>
        ELSE <<SubSeq(s, 1, last - 1), SubSeq(s, last + 1, Len(s))>>

\* s.split(sep, 1): at most two pieces, cut at the first sep
split1(s, sep) ==
    LET i == find(s, sep, 1)
    IN  IF i = 0 THEN <<s>>
        ELSE <<SubSeq(s, 1, i - 1), SubSeq(s, i + 1, Len(s))>>

\* d[key] = value on an insertion-ordered dict
dict_set(d, key, value) ==
    IF \E i \in 1..Len(d) : d[i][1] = key
    THEN [i \in 1..Len(d) |-> IF d[i][1] = key THEN <<key, value>> ELSE d[i]]
    ELSE Append(d, <<key, value>>)

\* d.get(key) with str values
dict_get(d, key) ==
    IF \E i \in 1..Len(d) : d[i][1] = key
    THEN PyStr(d[CHOOSE i \in 1..Len(d) : d[i][1] = key][2])
    ELSE PyNone

---------------------------------------------------------------------------
(* What a handler method does, statement by statement.  A method body is   *)
(* the sequence of the calls it makes on self, in program order.           *)

Stmt(op, code, name, value, msg) ==
    [op |-> op, code |-> code, name |-> name, value |-> value, msg |-> msg]

\* self.send_response(code)
send_response(code) == Stmt("send_response", code, "", "", <<>>)

\* self.send_header(name, value)
send_header(name, value) == Stmt("send_header", 0, name, value, <<>>)

\* self.end_headers()
end_headers == Stmt("end_headers", 0, "", "", <<>>)

\* self.wfile.write(data)
wfile_write(data) == Stmt("wfile_write", 0, "", data, <<>>)

\* LOGGER.debug(msg), msg a dict
LOGGER_debug(msg) == Stmt("LOGGER_debug", 0, "", "", msg)

---------------------------------------------------------------------------
(* set_headers *)

RECURSIVE set_headers(_)
set_headers(headers) ==
    IF headers = <<>> THEN <<>>
    ELSE <<send_header(headers[1][1], headers[1][2])>> \o set_headers(Tail(headers))

---------------------------------------------------------------------------
(* set_cookies *)

DAY_NAMES == <<"Sun", "Mon", "Tue", "Wed", "Thu", "Fri", "Sat">>

MONTH_NAMES == <<"Jan", "Feb", "Mar", "Apr", "May", "Jun",
                 "Jul", "Aug", "Sep", "Oct", "Nov", "Dec">>

\* day of the week of a proleptic Gregorian date, 1 = Sunday
weekday(dt) ==
    LET t == <<0, 3, 2, 5, 0, 3, 5, 1, 4, 6, 2, 4>>
        y == IF dt.month < 3 THEN dt.year - 1 ELSE dt.year
    IN  ((y + (y \div 4) - (y \div 100) + (y \div 400) + t[dt.month] + dt.day) % 7) + 1

\* %d, %H, %M, %S: two digits, zero padded
pad2(n) == IF n < 10 THEN "0" \o ToString(n) ELSE ToString(n)

\* expires.strftime("%a, %d-%b-%Y %H:%M:%S GMT"), years 1000..9999
strftime(dt) ==
    DAY_NAMES[weekday(dt)] \o ", " \o pad2(dt.day) \o "-" \o MONTH_NAMES[dt.month]
        \o "-" \o ToString(dt.year) \o " " \o pad2(dt.hour) \o ":" \o pad2(dt.minute)
        \o ":" \o pad2(dt.second) \o " GMT"

\* the local variable expires after one pass of the loop body
expires_converted(expires) ==
    IF Truthy(expires) /\ expires.t = "datetime" THEN PyStr(strftime(expires)) ELSE expires

\* faulty variant: Max-Age is appended whenever max_age is an int, 0 included
cookie_line_max_age_always(key, value, path, domain, http_only, secure, max_age, expires) ==
    LET c0 == key \o "=" \o value
        c1 == IF Len(path) > 0 THEN c0 \o "; Path=" \o path ELSE c0
        c2 == IF Truthy(domain) THEN c1 \o "; Domain=" \o domain.v ELSE c1
        c3 == IF http_only THEN c2 \o "; HttpOnly" ELSE c2
        c4 == IF secure THEN c3 \o "; Secure" ELSE c3
        c5 == c4 \o "; Max-Age=" \o ToString(max_age)
        c6 == IF Truthy(expires) THEN c5 \o "; Expires=" \o expires_converted(expires).v ELSE c5
    IN  c6

\* the loop body of set_cookies: the value of cookie when send_header is called
cookie_line(key, value, path, domain, http_only, secure, max_age, expires) ==
    LET c0 == key \o "=" \o value
        c1 == IF Len(path) > 0 THEN c0 \o "; Path=" \o path ELSE c0
        c2 == IF Truthy(domain) THEN c1 \o "; Domain=" \o domain.v ELSE c1
        c3 == IF http_only THEN c2 \o "; HttpOnly" ELSE c2
        c4 == IF secure THEN c3 \o "; Secure" ELSE c3
        c5 == IF max_age # 0 THEN c4 \o "; Max-Age=" \o ToString(max_age) ELSE c4
        c6 == IF Truthy(expires) THEN c5 \o "; Expires=" \o expires_converted(expires).v ELSE c5
    IN  c6

\* the send_header calls of set_cookies, one per item of cookies
RECURSIVE set_cookies(_, _, _, _, _, _, _)
set_cookies(cookies, path, domain, http_only, secure, max_age, expires) ==
    IF cookies = <<>> THEN <<>>
    ELSE <<send_header("Set-Cookie",
                       cookie_line(cookies[1][1], cookies[1][2], path, domain,
                                   http_only, secure, max_age, expires))>>
         \o set_cookies(Tail(cookies), path, domain, http_only, secure, max_age,
                        expires_converted(expires))

\* the defaults of set_cookies' keyword parameters
DEFAULT_PATH == "/"

DEFAULT_MAX_AGE == 3600

set_cookies_defaults(cookies) ==
    set_cookies(cookies, DEFAULT_PATH, PyNone, FALSE, FALSE, DEFAULT_MAX_AGE, PyNone)

---------------------------------------------------------------------------
(* json.dumps of the one-key dicts the handlers send (ensure_ascii=True):  *)
(* a value is [cp, rest], one non-ASCII code point followed by ASCII text. *)

HEX_DIGITS == <<"0", "1", "2", "3", "4", "5", "6", "7",
                "8", "9", "a", "b", "c", "d", "e", "f">>

\* '\\u{0:04x}'.format(n)
escape_u(n) ==
    "\\u" \o HEX_DIGITS[((n \div 4096) % 16) + 1] \o HEX_DIGITS[((n \div 256) % 16) + 1]
          \o HEX_DIGITS[((n \div 16) % 16) + 1] \o HEX_DIGITS[(n % 16) + 1]

\* one code point under ensure_ascii: a surrogate pair above the BMP
escape_code_point(cp) ==
    IF cp < 65536 THEN escape_u(cp)
    ELSE LET v == cp - 65536
         IN  escape_u(55296 + (v \div 1024)) \o escape_u(56320 + (v % 1024))

\* json.dumps({key: value}).encode()
json_dumps(key, value) ==
    "{\"" \o key \o "\": \"" \o escape_code_point(value.cp) \o value.rest \o "\"}"

---------------------------------------------------------------------------
(* set_defaults and the do_* methods *)

\* the characters of a str, joined back into the str
RECURSIVE text(_)
text(s) == IF s = <<>> THEN "" ELSE Head(s) \o text(Tail(s))

\* a dict of character sequences as the dict of str it stands for
text_dict(d) == [i \in 1..Len(d) |-> <<text(d[i][1]), text(d[i][2])>>]

\* dict(self.headers): header names are str already
headers_dict(headers) == [i \in 1..Len(headers) |-> <<headers[i][1], text(headers[i][2])>>]

\* the for loop of set_defaults over cookie_header.split(";")
RECURSIVE parse_pairs(_, _)
parse_pairs(pairs, cookies) ==
    IF pairs = <<>> THEN cookies
    ELSE IF contains(Head(pairs), "=")
         THEN LET kv == split1(strip(Head(pairs)), "=")
              IN  parse_pairs(Tail(pairs), dict_set(cookies, kv[1], kv[2]))
         ELSE parse_pairs(Tail(pairs), cookies)

\* cookies as set_defaults logs it, for a truthy cookie_header
parse_cookies(cookie_header) == parse_pairs(split(cookie_header, ";"), <<>>)

\* what set_defaults hands to LOGGER.debug for the Cookie header: cookies if the header
\* is there and not empty, nothing otherwise
logged_cookies(cookie_header) ==
    IF Truthy(cookie_header) THEN <<parse_cookies(cookie_header.v)>> ELSE <<>>

\* faulty variant: the cookie tells returning visitors (those sending a Cookie) apart
set_defaults_by_cookie(self) ==
    LET cookie_header == dict_get(self.headers, "Cookie")
        logged == logged_cookies(cookie_header)
    IN  [i \in 1..Len(logged) |-> LOGGER_debug(text_dict(logged[i]))]
        \o <<LOGGER_debug(headers_dict(self.headers))>>
        \o <<send_response(200)>>
        \o set_headers(<<<<"Content-type", "application/json">>,
                         <<"X-Server", "NoFrameworkServer">>>>)
        \o set_cookies_defaults(<<<<"visited",
                                    IF Truthy(cookie_header) THEN "again" ELSE "true">>>>)
        \o <<end_headers>>

\* faulty variant: the cookie carries a count of the connections served so far
set_defaults_by_count(self) ==
    LET cookie_header == dict_get(self.headers, "Cookie")
        logged == logged_cookies(cookie_header)
    IN  [i \in 1..Len(logged) |-> LOGGER_debug(text_dict(logged[i]))]
        \o <<LOGGER_debug(headers_dict(self.headers))>>
        \o <<send_response(200)>>
        \o set_headers(<<<<"Content-type", "application/json">>,
                         <<"X-Server", "NoFrameworkServer">>>>)
        \o set_cookies_defaults(<<<<"visited", ToString(self.conn)>>>>)
        \o <<end_headers>>

\* faulty variant: end_headers is left to the caller, which does not call it
set_defaults_no_end_headers(self) ==
    LET cookie_header == dict_get(self.headers, "Cookie")
        logged == logged_cookies(cookie_header)
    IN  [i \in 1..Len(logged) |-> LOGGER_debug(text_dict(logged[i]))]
        \o <<LOGGER_debug(headers_dict(self.headers))>>
        \o <<send_response(200)>>
        \o set_headers(<<<<"Content-type", "application/json">>,
                         <<"X-Server", "NoFrameworkServer">>>>)
        \o set_cookies_defaults(<<<<"visited", "true">>>>)

set_defaults(self) ==
    LET cookie_header == dict_get(self.headers, "Cookie")
        logged == logged_cookies(cookie_header)
    IN  [i \in 1..Len(logged) |-> LOGGER_debug(text_dict(logged[i]))]
        \o <<LOGGER_debug(headers_dict(self.headers))>>
        \o <<send_response(200)>>
        \o set_headers(<<<<"Content-type", "application/json">>,
                         <<"X-Server", "NoFrameworkServer">>>>)
        \o set_cookies_defaults(<<<<"visited", "true">>>>)
        \o <<end_headers>>

do_DELETE(self) ==
    set_defaults(self)
        \o <<wfile_write(json_dumps("message", [cp |-> 128308, rest |-> " DELETE received"]))>>

\* faulty variant: HEAD as HTTP has it, headers only
do_HEAD_without_body(self) == set_defaults(self)

do_HEAD(self) ==
    set_defaults(self)
        \o <<wfile_write(json_dumps("message", [cp |-> 128995, rest |-> " HEAD received"]))>>

\* faulty variant: OPTIONS sets the visited cookie like the other verbs
do_OPTIONS_with_cookie(self) ==
    <<send_response(200),
      send_header("Access-Control-Allow-Origin", "*"),
      send_header("Access-Control-Allow-Methods", "GET, POST, OPTIONS"),
      send_header("Access-Control-Allow-Headers", "Content-Type")>>
        \o set_cookies_defaults(<<<<"visited", "true">>>>)
        \o <<end_headers,
             wfile_write(json_dumps("message", [cp |-> 9898, rest |-> " OPTIONS received"]))>>

do_OPTIONS(self) ==
    <<send_response(200),
      send_header("Access-Control-Allow-Origin", "*"),
      send_header("Access-Control-Allow-Methods", "GET, POST, OPTIONS"),
      send_header("Access-Control-Allow-Headers", "Content-Type"),
      end_headers,
      wfile_write(json_dumps("message", [cp |-> 9898, rest |-> " OPTIONS received"]))>>

do_POST(self) ==
    set_defaults(self)
        \o <<wfile_write(json_dumps("message", [cp |-> 128993, rest |-> " POST received"]))>>

do_PUT(self) ==
    set_defaults(self)
        \o <<wfile_write(json_dumps("message", [cp |-> 128309, rest |-> " PUT received"]))>>

do_PATCH(self) ==
    set_defaults(self)
        \o <<wfile_write(json_dumps("message", [cp |-> 128992, rest |-> " PATCH received"]))>>

\* faulty variant: the path is not looked at
do_GET_any_path(self) ==
    set_defaults(self)
        \o <<wfile_write(json_dumps("message", [cp |-> 128994, rest |-> " GET received"]))>>

do_GET(self) ==
    IF self.path = "/"
    THEN set_defaults(self)
         \o <<wfile_write(json_dumps("message", [cp |-> 128994, rest |-> " GET received"]))>>
    ELSE <<send_response(404),
           send_header("Content-type", "application/json"),
           end_headers,
           wfile_write("{\"error\": \"Not Found\"}")>>

\* the method the request's verb selects, as the statements it runs
method(self) ==
    CASE self.command = "DELETE" -> do_DELETE(self)
      [] self.command = "HEAD" -> do_HEAD(self)
      [] self.command = "OPTIONS" -> do_OPTIONS(self)
      [] self.command = "POST" -> do_POST(self)
      [] self.command = "PUT" -> do_PUT(self)
      [] self.command = "PATCH" -> do_PATCH(self)
      [] self.command = "GET" -> do_GET(self)

---------------------------------------------------------------------------
(* The requests clients send *)

VERBS == {"GET", "POST", "PUT", "PATCH", "DELETE", "HEAD", "OPTIONS"}

PATHS == {"/", "/items"}

\* the example of the specification: a=1; b=2; malformed; c=3
EXAMPLE_COOKIE ==
    <<"a", "=", "1", ";", " ", "b", "=", "2", ";", " ", "m", "a", "l", "f", "o", "r",
      "m", "e", "d", ";", " ", "c", "=", "3">>

\* request header sets: without Cookie, with an empty, a well-formed, a malformed one
REQUEST_HEADERS ==
    { <<<<"Host", <<"h">>>>>>,
      <<<<"Host", <<"h">>>>, <<"Cookie", <<>>>>>>,
      <<<<"Host", <<"h">>>>, <<"Cookie", <<"a", "=", "1", ";", " ", "b">>>>>>,
      <<<<"Cookie", <<" ", "a", " ", "=", "1">>>>, <<"X-Server", <<"x">>>>>> }

Requests == [command : VERBS, path : PATHS, headers : REQUEST_HEADERS]

---------------------------------------------------------------------------
(* The handler instance and what it has sent *)

\* one element of the response: the status line, a header line, the blank line, the body
Event(kind, code, name, value) == [kind |-> kind, code |-> code, name |-> name, value |-> value]

\* a record handed to LOGGER; msg is a dict
LogRecord(level, msg) == [level |-> level, msg |-> msg]

\* SimpleAPIHandler(request, client_address, server) before its method runs; method is
\* the body of the do_* method the verb selects, worked out from the parsed request
NewHandler(conn, req) ==
    LET self == [conn |-> conn, command |-> req.command, path |-> req.path,
                 headers |-> req.headers]
    IN  [conn |-> conn, command |-> req.command, path |-> req.path, headers |-> req.headers,
         method |-> method(self), pc |-> 1, headers_buffer |-> <<>>, wfile |-> <<>>,
         log |-> <<>>]

\* log_message, as send_response's log_request calls it
log_message(self, code) ==
    LogRecord("INFO", <<<<"requestline", self.command \o " " \o self.path>>,
                        <<"code", ToString(code)>>>>)

NoExchange == [set |-> FALSE, command |-> "", path |-> "", headers |-> <<>>, conn |-> 0,
               wfile |-> <<>>, log |-> <<>>]

ExchangeOf(self) ==
    [set |-> TRUE, command |-> self.command, path |-> self.path, headers |-> self.headers,
     conn |-> self.conn, wfile |-> self.wfile, log |-> self.log]

NoArg == [fn |-> "none"]

NoRet == [done |-> FALSE, out |-> <<>>]

\* the method of handler self has statements left to run
Running(self) == self.pc <= Len(self.method)

\* the statement handler self runs next
Current(self) == self.method[self.pc]

---------------------------------------------------------------------------
(* Starting the server: run and run_async *)

Unbound == [thread |-> "none", state |-> "unbound"]

\* run: server_class(server_address, handler_class) binds and listens
RunBind ==
    /\ mode = "sync" /\ caller = "start"
    /\ caller' = "bound"
    /\ server' = [server EXCEPT !.state = "bound"]
    /\ UNCHANGED <<mode, pool, loopThread, arrived, accepted, handlers, exchange, arg, ret>>

\* run: httpd.serve_forever(0.5) on the calling thread
RunServeForever ==
    /\ mode = "sync" /\ caller = "bound"
    /\ caller' = "serve_forever"
    /\ server' = [thread |-> "main", state |-> "select"]
    /\ UNCHANGED <<mode, pool, loopThread, arrived, accepted, handlers, exchange, arg, ret>>

\* run_async: server_class(server_address, handler_class) binds and listens
AsyncBind ==
    /\ mode = "async" /\ caller = "start" /\ loopThread = "coroutine"
    /\ caller' = "bound"
    /\ server' = [server EXCEPT !.state = "bound"]
    /\ UNCHANGED <<mode, pool, loopThread, arrived, accepted, handlers, exchange, arg, ret>>

\* run_async: with concurrent.futures.ThreadPoolExecutor() as pool
AsyncEnterPool ==
    /\ mode = "async" /\ caller = "bound" /\ loopThread = "coroutine"
    /\ caller' = "with_pool"
    /\ pool' = "open"
    /\ UNCHANGED <<mode, loopThread, server, arrived, accepted, handlers, exchange, arg, ret>>

\* faulty variant: httpd.serve_forever(0.5) called in the coroutine itself
serve_forever_inline ==
    [server |-> [thread |-> "loop", state |-> "select"], caller |-> "serve_forever",
     loopThread |-> "blocked"]

\* await loop.run_in_executor(pool, httpd.serve_forever, 0.5): a pool thread runs
\* serve_forever, the coroutine is suspended and the loop thread is free
await_run_in_executor ==
    [server |-> [thread |-> "worker", state |-> "select"], caller |-> "await",
     loopThread |-> "idle"]

AsyncServe ==
    /\ mode = "async" /\ caller = "with_pool" /\ loopThread = "coroutine"
    /\ caller' = await_run_in_executor.caller
    /\ server' = await_run_in_executor.server
    /\ loopThread' = await_run_in_executor.loopThread
    /\ UNCHANGED <<mode, pool, arrived, accepted, handlers, exchange, arg, ret>>

\* the event loop runs another task while every coroutine is suspended
LoopRunsOtherTask ==
    /\ loopThread = "idle"
    /\ loopThread' = "other_task"
    /\ UNCHANGED <<mode, caller, pool, server, arrived, accepted, handlers, exchange, arg, ret>>

\* the other task reaches a suspension point
OtherTaskYields ==
    /\ loopThread = "other_task"
    /\ loopThread' = "idle"
    /\ UNCHANGED <<mode, caller, pool, server, arrived, accepted, handlers, exchange, arg, ret>>

\* serve_forever ends: an exception or a shutdown request it sees between two requests
ServeForeverEnds ==
    /\ server.state = "select"
    /\ server' = [server EXCEPT !.state = "stopped"]
    /\ caller' = IF server.thread = "worker" THEN caller ELSE "done"
    /\ loopThread' = IF server.thread = "loop" THEN "coroutine" ELSE loopThread
    /\ UNCHANGED <<mode, pool, arrived, accepted, handlers, exchange, arg, ret>>

\* run_async: the future is done, the loop resumes the coroutine after the await
AsyncResume ==
    /\ mode = "async" /\ caller = "await" /\ server.state = "stopped"
    /\ loopThread = "idle"
    /\ caller' = "leave_pool"
    /\ loopThread' = "coroutine"
    /\ UNCHANGED <<mode, pool, server, arrived, accepted, handlers, exchange, arg, ret>>

\* run_async: the with block is left, pool.shutdown(wait=True)
AsyncExitPool ==
    /\ mode = "async" /\ caller = "leave_pool" /\ loopThread = "coroutine"
    /\ pool' = "shutdown"
    /\ caller' = "done"
    /\ loopThread' = "none"
    /\ UNCHANGED <<mode, server, arrived, accepted, handlers, exchange, arg, ret>>

---------------------------------------------------------------------------
(* Serving requests: the accept loop of serve_forever and the handler *)

\* a client connects to the listening socket
Connect ==
    /\ server.state \in {"bound", "select", "handling"}
    /\ arrived < MaxRequests
    /\ arrived' = arrived + 1
    /\ UNCHANGED <<mode, caller, pool, loopThread, server, accepted, handlers, exchange, arg, ret>>

\* faulty variant: a threading server class, the accept loop goes on while a handler runs
process_request_in_thread == "select"

\* HTTPServer.process_request runs the handler on the thread of serve_forever
process_request == "handling"

\* serve_forever takes the next connection; the request is parsed and its method selected
Accept ==
    /\ server.state = "select"
    /\ accepted < arrived
    /\ \E req \in Requests :
          handlers' = (accepted + 1 :> NewHandler(accepted + 1, req)) @@ handlers
    /\ accepted' = accepted + 1
    /\ server' = [server EXCEPT !.state = process_request]
    /\ UNCHANGED <<mode, caller, pool, loopThread, arrived, exchange, arg, ret>>

\* LOGGER.debug(...)
HandlerLogs(c) ==
    LET self == handlers[c]
    IN  /\ Running(self) /\ Current(self).op = "LOGGER_debug"
        /\ handlers' = [handlers EXCEPT ![c].pc = @ + 1,
                           ![c].log = Append(@, LogRecord("DEBUG", Current(self).msg))]
        /\ UNCHANGED <<mode, caller, pool, loopThread, server, arrived, accepted,
                       exchange, arg, ret>>

\* self.send_response(code): the request is logged, the status line is buffered
HandlerSendsResponse(c) ==
    LET self == handlers[c]
    IN  /\ Running(self) /\ Current(self).op = "send_response"
        /\ handlers' = [handlers EXCEPT ![c].pc = @ + 1,
                           ![c].log = Append(@, log_message(self, Current(self).code)),
                           ![c].headers_buffer =
                               Append(@, Event("status", Current(self).code, "", ""))]
        /\ UNCHANGED <<mode, caller, pool, loopThread, server, arrived, accepted,
                       exchange, arg, ret>>

\* self.send_header(name, value): the header line is buffered
HandlerSendsHeader(c) ==
    LET self == handlers[c]
    IN  /\ Running(self) /\ Current(self).op = "send_header"
        /\ handlers' = [handlers EXCEPT ![c].pc = @ + 1,
                           ![c].headers_buffer =
                               Append(@, Event("header", 0, Current(self).name,
                                               Current(self).value))]
        /\ UNCHANGED <<mode, caller, pool, loopThread, server, arrived, accepted,
                       exchange, arg, ret>>

\* self.end_headers(): the blank line is buffered and the buffer is written out
HandlerEndsHeaders(c) ==
    LET self == handlers[c]
    IN  /\ Running(self) /\ Current(self).op = "end_headers"
        /\ handlers' = [handlers EXCEPT ![c].pc = @ + 1,
                           ![c].wfile = @ \o Append(self.headers_buffer,
                                                    Event("end_headers", 0, "", "")),
                           ![c].headers_buffer = <<>>]
        /\ UNCHANGED <<mode, caller, pool, loopThread, server, arrived, accepted,
                       exchange, arg, ret>>

\* self.wfile.write(data): the body goes out unbuffered
HandlerWritesBody(c) ==
    LET self == handlers[c]
    IN  /\ Running(self) /\ Current(self).op = "wfile_write"
        /\ handlers' = [handlers EXCEPT ![c].pc = @ + 1,
                           ![c].wfile = Append(@, Event("body", 0, "", Current(self).value))]
        /\ UNCHANGED <<mode, caller, pool, loopThread, server, arrived, accepted,
                       exchange, arg, ret>>

\* the method returns: the connection is closed and the handler instance dropped.
\* exchange may keep what was sent, to be compared with a later exchange.
HandlerReturns(c) ==
    LET self == handlers[c]
    IN  /\ ~Running(self)
        /\ handlers' = [k \in DOMAIN handlers \ {c} |-> handlers[k]]
        /\ server' = [server EXCEPT !.state = "select"]
        /\ exchange' \in {exchange, ExchangeOf(self)}
        /\ UNCHANGED <<mode, caller, pool, loopThread, arrived, accepted, arg, ret>>

---------------------------------------------------------------------------
(* The server *)

Init ==
    /\ mode \in {"sync", "async"}
    /\ caller = "start"
    /\ pool = "none"
    /\ loopThread = IF mode = "async" THEN "coroutine" ELSE "none"
    /\ server = Unbound
    /\ arrived = 0
    /\ accepted = 0
    /\ handlers = <<>>
    /\ exchange = NoExchange
    /\ arg = NoArg
    /\ ret = NoRet

Next ==
    \/ RunBind
    \/ RunServeForever
    \/ AsyncBind
    \/ AsyncEnterPool
    \/ AsyncServe
    \/ LoopRunsOtherTask
    \/ OtherTaskYields
    \/ ServeForeverEnds
    \/ AsyncResume
    \/ AsyncExitPool
    \/ Connect
    \/ Accept
    \/ \E c \in DOMAIN handlers : HandlerLogs(c)
    \/ \E c \in DOMAIN handlers : HandlerSendsResponse(c)
    \/ \E c \in DOMAIN handlers : HandlerSendsHeader(c)
    \/ \E c \in DOMAIN handlers : HandlerEndsHeaders(c)
    \/ \E c \in DOMAIN handlers : HandlerWritesBody(c)
    \/ \E c \in DOMAIN handlers : HandlerReturns(c)

Spec == Init /\ [][Next]_vars

---------------------------------------------------------------------------
(* set_cookies on its own: every combination of arguments from small sets *)

ServerNotStarted ==
    /\ mode = "none"
    /\ caller = "none"
    /\ pool = "none"
    /\ loopThread = "none"
    /\ server = Unbound
    /\ arrived = 0
    /\ accepted = 0
    /\ handlers = <<>>
    /\ exchange = NoExchange

COOKIE_NAMES == {"visited", "sid", "theme"}

COOKIE_VALUES == {"true", ""}

\* dicts of at most MaxCookies cookies
CookieDicts ==
    UNION { { d \in [1..n -> COOKIE_NAMES \X COOKIE_VALUES] :
                \A i, j \in 1..n : i # j => d[i][1] # d[j][1] } : n \in 0..MaxCookies }

SUNDAY_MORNING == PyDatetime(2025, 1, 5, 3, 4, 9)

LEAP_DAY == PyDatetime(2024, 2, 29, 23, 59, 0)

SetCookiesArgs ==
    [fn : {"set_cookies"},
     cookies : CookieDicts,
     path : {"", "/", "/x"},
     domain : {PyNone, PyStr(""), PyStr("example.com")},
     http_only : BOOLEAN,
     secure : BOOLEAN,
     max_age : {0, 60, 3600, -1},
     expires : {PyNone, PyStr(""), PyStr("Wed, 01-Jan-2025 00:00:00 GMT")}]
    \cup
    [fn : {"set_cookies"},
     cookies : CookieDicts,
     path : {"", "/", "/x"},
     domain : {PyNone, PyStr(""), PyStr("example.com")},
     http_only : BOOLEAN,
     secure : BOOLEAN,
     max_age : {0, 60, 3600, -1},
     expires : {SUNDAY_MORNING, LEAP_DAY}]

InitSetCookies ==
    /\ ServerNotStarted
    /\ arg \in SetCookiesArgs
    /\ ret = NoRet

\* self.set_cookies(cookies, path, domain, http_only, secure, max_age, expires);
\* out is the send_header calls it made
CallSetCookies ==
    /\ arg.fn = "set_cookies" /\ ~ret.done
    /\ ret' = [done |-> TRUE,
               out |-> set_cookies(arg.cookies, arg.path, arg.domain, arg.http_only,
                                   arg.secure, arg.max_age, arg.expires)]
    /\ UNCHANGED <<serverVars, arg>>

NextSetCookies == CallSetCookies

SpecSetCookies == InitSetCookies /\ [][NextSetCookies]_vars

---------------------------------------------------------------------------
(* The Cookie header parsing of set_defaults on its own *)

ALPHABET == {"a", "b", "=", ";", " "}

\* every header value of at most MaxHeaderLen characters, and the specification's example
CookieHeaders ==
    UNION { [1..n -> ALPHABET] : n \in 0..MaxHeaderLen } \cup {EXAMPLE_COOKIE}

InitParse ==
    /\ ServerNotStarted
    /\ arg \in [fn : {"logged_cookies"},
                cookie_header : {PyNone} \cup { PyStr(h) : h \in CookieHeaders }]
    /\ ret = NoRet

\* lines 92-98 of set_defaults; out is what LOGGER.debug(cookies) was called with
CallLoggedCookies ==
    /\ arg.fn = "logged_cookies" /\ ~ret.done
    /\ ret' = [done |-> TRUE, out |-> logged_cookies(arg.cookie_header)]
    /\ UNCHANGED <<serverVars, arg>>

NextParse == CallLoggedCookies

SpecParse == InitParse /\ [][NextParse]_vars

---------------------------------------------------------------------------
(* Properties of set_cookies *)

RECURSIVE join(_)
join(strings) == IF strings = <<>> THEN "" ELSE Head(strings) \o join(Tail(strings))

\* the Expires text of the datetimes among the arguments, as CPython prints them
C4_ExpiresText(expires) ==
    CASE expires.t = "datetime" /\ expires.year = 2025 -> "Sun, 05-Jan-2025 03:04:09 GMT"
      [] expires.t = "datetime" /\ expires.year = 2024 -> "Thu, 29-Feb-2024 23:59:00 GMT"
      [] OTHER -> expires.v

\* the six attributes in their fixed order, each with the condition under which it appears
C4_Attributes(a) ==
    << [on |-> a.path # "", text |-> "; Path=" \o a.path],
       [on |-> a.domain.t = "str" /\ a.domain.v # "", text |-> "; Domain=" \o a.domain.v],
       [on |-> a.http_only, text |-> "; HttpOnly"],
       [on |-> a.secure, text |-> "; Secure"],
       [on |-> a.max_age # 0, text |-> "; Max-Age=" \o ToString(a.max_age)],
       [on |-> ~(a.expires.t = "none" \/ (a.expires.t = "str" /\ a.expires.v = "")),
        text |-> "; Expires=" \o C4_ExpiresText(a.expires)] >>

C4_Present(attr) == attr.on

C4_Texts(attrs) == [i \in 1..Len(attrs) |-> attrs[i].text]

C4_DefaultArgs ==
    /\ arg.path = "/" /\ arg.domain = PyNone /\ ~arg.http_only /\ ~arg.secure
    /\ arg.max_age = 3600 /\ arg.expires.t = "none"

\* C4: set_cookies sends one Set-Cookie header per item of cookies, in order; its value is
\* name=value followed by exactly the attributes whose argument is truthy, in the order
\* Path, Domain, HttpOnly, Secure, Max-Age, Expires (max_age 0 and an empty path add
\* nothing); with the default arguments visited/true gives
\* visited=true; Path=/; Max-Age=3600.
C4_SetCookiesRendering ==
    ret.done /\ arg.fn = "set_cookies" =>
        /\ Len(ret.out) = Len(arg.cookies)
        /\ \A i \in 1..Len(arg.cookies) :
              ret.out[i] =
                  send_header("Set-Cookie",
                              arg.cookies[i][1] \o "=" \o arg.cookies[i][2]
                                  \o join(C4_Texts(SelectSeq(C4_Attributes(arg), C4_Present))))
        /\ (C4_DefaultArgs /\ arg.cookies = <<<<"visited", "true">>>> =>
                ret.out = <<send_header("Set-Cookie", "visited=true; Path=/; Max-Age=3600")>>)

\* two cookies rendered with every attribute set, the expiry given as a datetime
C4_Witness ==
    /\ ret.done /\ arg.fn = "set_cookies"
    /\ arg.cookies = <<<<"visited", "true">>, <<"sid", "">>>>
    /\ arg.path = "/x" /\ arg.domain = PyStr("example.com") /\ arg.http_only /\ arg.secure
    /\ arg.max_age = 60 /\ arg.expires.t = "datetime" /\ arg.expires.year = 2025
    /\ ret.out[1].value =
         "visited=true; Path=/x; Domain=example.com; HttpOnly; Secure; Max-Age=60; Expires=Sun, 05-Jan-2025 03:04:09 GMT"
    /\ ret.out[2].value =
         "sid=; Path=/x; Domain=example.com; HttpOnly; Secure; Max-Age=60; Expires=Sun, 05-Jan-2025 03:04:09 GMT"

---------------------------------------------------------------------------
(* Properties of the Cookie header parsing *)

\* the positions that bound the segments of h: before it, each ";", after it
C5_Cuts(h) == {0, Len(h) + 1} \cup { i \in 1..Len(h) : h[i] = ";" }

\* the segments of h as <<p, q>>: the characters strictly between two neighbouring cuts
C5_Segments(h) ==
    { pq \in C5_Cuts(h) \X C5_Cuts(h) :
        pq[1] < pq[2] /\ ~\E r \in C5_Cuts(h) : pq[1] < r /\ r < pq[2] }

C5_HasEquals(h, pq) == \E i \in (pq[1] + 1)..(pq[2] - 1) : h[i] = "="

\* the first "=" of a segment that has one
C5_Equals(h, pq) ==
    CHOOSE i \in (pq[1] + 1)..(pq[2] - 1) :
        h[i] = "=" /\ \A j \in (pq[1] + 1)..(i - 1) : h[j] # "="

\* the first and the last character of a segment that are not whitespace
C5_First(h, pq) ==
    CHOOSE i \in (pq[1] + 1)..(pq[2] - 1) :
        h[i] \notin WHITESPACE /\ \A j \in (pq[1] + 1)..(i - 1) : h[j] \in WHITESPACE

C5_Last(h, pq) ==
    CHOOSE i \in (pq[1] + 1)..(pq[2] - 1) :
        h[i] \notin WHITESPACE /\ \A j \in (i + 1)..(pq[2] - 1) : h[j] \in WHITESPACE

\* name and value of a segment with "=": the whole segment is trimmed, then cut at its
\* first "="
C5_Name(h, pq) == SubSeq(h, C5_First(h, pq), C5_Equals(h, pq) - 1)

C5_Value(h, pq) == SubSeq(h, C5_Equals(h, pq) + 1, C5_Last(h, pq))

\* the name as the claim has it: the text before the first "=", trimmed on both sides
C5_TrimmedName(h, pq) ==
    LET before == SubSeq(h, pq[1] + 1, C5_Equals(h, pq) - 1)
        inner == { i \in 1..Len(before) : before[i] \notin WHITESPACE }
    IN  IF inner = {} THEN <<>>
        ELSE SubSeq(before, CHOOSE i \in inner : \A j \in inner : i <= j,
                            CHOOSE i \in inner : \A j \in inner : j <= i)

C5_Parsed == ret.done /\ arg.fn = "logged_cookies" /\ Len(ret.out) = 1

\* C5 as amended: the Cookie header is split on ";", segments without "=" are dropped,
\* each remaining segment is trimmed as a whole and cut at its first "=" only, so the name
\* loses its leading and the value its trailing whitespace while whitespace next to the
\* "=" stays; a later segment replaces the value of an earlier one of the same name.
\* a=1; b=2; malformed; c=3 gives {a: 1, b: 2, c: 3}.
C5_ParsesTrimmedSegments ==
    ret.done /\ arg.fn = "logged_cookies" =>
        LET h == arg.cookie_header.v
            kept == { pq \in C5_Segments(h) : C5_HasEquals(h, pq) }
        IN  IF arg.cookie_header.t = "none" \/ Len(h) = 0
            THEN ret.out = <<>>
            ELSE /\ Len(ret.out) = 1
                 /\ LET cookies == ret.out[1]
                    IN  /\ \A i, j \in 1..Len(cookies) :
                              cookies[i][1] = cookies[j][1] => i = j
                        /\ { cookies[i][1] : i \in 1..Len(cookies) }
                              = { C5_Name(h, pq) : pq \in kept }
                        /\ \A i \in 1..Len(cookies) :
                              \E pq \in kept :
                                 /\ C5_Name(h, pq) = cookies[i][1]
                                 /\ C5_Value(h, pq) = cookies[i][2]
                                 /\ \A rs \in kept :
                                       C5_Name(h, rs) = cookies[i][1] => rs[1] <= pq[1]
                 /\ (h = EXAMPLE_COOKIE =>
                        ret.out[1] = << <<(<<"a">>), (<<"1">>)>>, <<(<<"b">>), (<<"2">>)>>,
                                        <<(<<"c">>), (<<"3">>)>> >>)

\* the specification's example has been parsed
C5_Witness ==
    /\ C5_Parsed
    /\ arg.cookie_header.v = EXAMPLE_COOKIE
    /\ Len(ret.out[1]) = 3

\* C5 as claimed: the names of the parsed mapping are the names of the segments that
\* contain "=", each with its surrounding whitespace trimmed
C5_NamesAreTrimmed ==
    C5_Parsed =>
        LET h == arg.cookie_header.v
            kept == { pq \in C5_Segments(h) : C5_HasEquals(h, pq) }
        IN  { ret.out[1][i][1] : i \in 1..Len(ret.out[1]) }
                = { C5_TrimmedName(h, pq) : pq \in kept }

---------------------------------------------------------------------------
(* Properties of the responses *)

\* the handlers whose method has run to its end and has not returned yet
Finished == { c \in DOMAIN handlers : ~Running(handlers[c]) }

OfKind(events, kind) == SelectSeq(events, LAMBDA e : e.kind = kind)

\* the status codes, header lines and bodies among the events written
Statuses(events) == [i \in 1..Len(OfKind(events, "status")) |-> OfKind(events, "status")[i].code]

HeaderLines(events) ==
    [i \in 1..Len(OfKind(events, "header")) |->
        <<OfKind(events, "header")[i].name, OfKind(events, "header")[i].value>>]

Bodies(events) == [i \in 1..Len(OfKind(events, "body")) |-> OfKind(events, "body")[i].value]

\* a header name without its case: HTTP header names are case-insensitive
HeaderKey(name) ==
    CASE name \in {"Content-type", "Content-Type", "content-type"} -> "content-type"
      [] name \in {"Set-Cookie", "Set-cookie", "set-cookie"} -> "set-cookie"
      [] name \in {"X-Server", "X-server", "x-server"} -> "x-server"
      [] OTHER -> name

HeaderKeys(events) == { HeaderKey(HeaderLines(events)[i][1]) : i \in 1..Len(HeaderLines(events)) }

DefaultPath(self) ==
    \/ self.command \in {"POST", "PUT", "PATCH", "DELETE", "HEAD"}
    \/ self.command = "GET" /\ self.path = "/"

NotFoundPath(self) == self.command = "GET" /\ self.path # "/"

\* the JSON text of {"message": "<emoji> <VERB> received"} as json.dumps writes it:
\* the emoji are U+1F534 (DELETE), U+1F7E3 (HEAD), U+1F7E1 (POST), U+1F535 (PUT),
\* U+1F7E0 (PATCH), U+1F7E2 (GET) and U+26AA (OPTIONS)
MessageBody(command) ==
    CASE command = "DELETE" -> "{\"message\": \"\\ud83d\\udd34 DELETE received\"}"
      [] command = "HEAD" -> "{\"message\": \"\\ud83d\\udfe3 HEAD received\"}"
      [] command = "POST" -> "{\"message\": \"\\ud83d\\udfe1 POST received\"}"
      [] command = "PUT" -> "{\"message\": \"\\ud83d\\udd35 PUT received\"}"
      [] command = "PATCH" -> "{\"message\": \"\\ud83d\\udfe0 PATCH received\"}"
      [] command = "GET" -> "{\"message\": \"\\ud83d\\udfe2 GET received\"}"
      [] command = "OPTIONS" -> "{\"message\": \"\\u26aa OPTIONS received\"}"

\* C1: POST, PUT, PATCH, DELETE and HEAD on any path with any headers, and GET on "/",
\* are answered with status 200 and the body {"message": "<emoji> <VERB> received"} of
\* that verb; HEAD writes this body too.
C1_DefaultPathResponse ==
    \A c \in Finished :
        DefaultPath(handlers[c]) =>
            /\ Statuses(handlers[c].wfile) = <<200>>
            /\ Bodies(handlers[c].wfile) = <<MessageBody(handlers[c].command)>>

\* a HEAD request on a path other than "/" has been answered
C1_Witness ==
    \E c \in Finished :
        /\ handlers[c].command = "HEAD" /\ handlers[c].path = "/items"
        /\ Bodies(handlers[c].wfile) = <<MessageBody("HEAD")>>

\* C2: GET on a path other than "/" is answered with status 404, the body
\* {"error": "Not Found"} and Content-Type: application/json as the only header the handler
\* adds: no Set-Cookie, no X-Server, and no debug record of cookies or headers is logged.
\* No other request gets a status that is not 200.
C2_NotFoundResponse ==
    \A c \in Finished :
        /\ NotFoundPath(handlers[c]) =>
              /\ Statuses(handlers[c].wfile) = <<404>>
              /\ Bodies(handlers[c].wfile) = <<"{\"error\": \"Not Found\"}">>
              /\ Len(HeaderLines(handlers[c].wfile)) = 1
              /\ HeaderKey(HeaderLines(handlers[c].wfile)[1][1]) = "content-type"
              /\ HeaderLines(handlers[c].wfile)[1][2] = "application/json"
              /\ \A i \in 1..Len(handlers[c].log) : handlers[c].log[i].level # "DEBUG"
        /\ ~NotFoundPath(handlers[c]) => Statuses(handlers[c].wfile) = <<200>>

\* a GET on /items that carried a Cookie header has been answered
C2_Witness ==
    \E c \in Finished :
        /\ NotFoundPath(handlers[c])
        /\ Truthy(dict_get(handlers[c].headers, "Cookie"))
        /\ Statuses(handlers[c].wfile) = <<404>>

\* C3: OPTIONS on any path with any headers is answered with status 200, the three CORS
\* headers, the OPTIONS message body, and no Set-Cookie header.
C3_OptionsResponse ==
    \A c \in Finished :
        handlers[c].command = "OPTIONS" =>
            /\ Statuses(handlers[c].wfile) = <<200>>
            /\ Bodies(handlers[c].wfile) = <<MessageBody("OPTIONS")>>
            /\ { <<"Access-Control-Allow-Origin", "*">>,
                 <<"Access-Control-Allow-Methods", "GET, POST, OPTIONS">>,
                 <<"Access-Control-Allow-Headers", "Content-Type">> }
                   \subseteq { HeaderLines(handlers[c].wfile)[i] :
                                 i \in 1..Len(HeaderLines(handlers[c].wfile)) }
            /\ "set-cookie" \notin HeaderKeys(handlers[c].wfile)

\* an OPTIONS request on "/" that carried a Cookie header has been answered
C3_Witness ==
    \E c \in Finished :
        /\ handlers[c].command = "OPTIONS" /\ handlers[c].path = "/"
        /\ Truthy(dict_get(handlers[c].headers, "Cookie"))
        /\ Len(HeaderLines(handlers[c].wfile)) = 3

---------------------------------------------------------------------------
(* The order in which a response is written *)

\* what has reached the connection followed by what is still buffered
Written(self) == self.wfile \o self.headers_buffer

Rank(kind) ==
    CASE kind = "status" -> 1
      [] kind = "header" -> 2
      [] kind = "end_headers" -> 3
      [] kind = "body" -> 4

\* C7: in every handler invocation the status line comes first, then the header and
\* Set-Cookie lines, then the end of the headers, then the body; the body is never on the
\* connection before the end of the headers; and when the method is done the status
\* line, the end of the headers and the body have each been written exactly once.
C7_WriteOrder ==
    \A c \in DOMAIN handlers :
        LET self == handlers[c]
            w == Written(self)
        IN  /\ \A i, j \in 1..Len(w) : i < j => Rank(w[i].kind) <= Rank(w[j].kind)
            /\ Len(OfKind(w, "status")) <= 1
            /\ Len(OfKind(w, "end_headers")) <= 1
            /\ Len(OfKind(w, "body")) <= 1
            /\ Len(OfKind(self.wfile, "body")) > 0 => Len(OfKind(self.wfile, "end_headers")) > 0
            /\ ~Running(self) =>
                  /\ self.headers_buffer = <<>>
                  /\ Len(OfKind(self.wfile, "status")) = 1
                  /\ Len(OfKind(self.wfile, "end_headers")) = 1
                  /\ Len(OfKind(self.wfile, "body")) = 1

\* a response of the default path is complete: status, three header lines, end, body
C7_Witness ==
    \E c \in Finished :
        /\ handlers[c].command = "PUT"
        /\ Len(handlers[c].wfile) = 6
        /\ handlers[c].wfile[6].kind = "body"

---------------------------------------------------------------------------
(* Responses compared across requests *)

SameRequest(self, other) ==
    /\ self.command = other.command
    /\ self.path = other.path
    /\ self.headers = other.headers

C8_ResponseIgnoresHeaders ==
    \A c \in Finished :
        /\ exchange.set
        /\ handlers[c].command = exchange.command
        /\ handlers[c].command = "GET" => ((handlers[c].path = "/") <=> (exchange.path = "/"))
        => handlers[c].wfile = exchange.wfile

\* two POSTs, one without and one with a Cookie header, were answered alike and logged
\* differently
C8_Witness ==
    \E c \in Finished :
        /\ exchange.set
        /\ handlers[c].command = "POST" /\ exchange.command = "POST"
        /\ dict_get(exchange.headers, "Cookie") = PyNone
        /\ Truthy(dict_get(handlers[c].headers, "Cookie"))
        /\ handlers[c].wfile = exchange.wfile
        /\ Len(handlers[c].log) # Len(exchange.log)

---------------------------------------------------------------------------
(* How the server runs *)

\* C9: in both modes requests are handled one at a time: at most one handler invocation
\* is in progress, it is the one for the connection accepted last, and every connection
\* accepted before it has had its response written in full and its handler has returned.
C9_Sequential ==
    /\ Cardinality(DOMAIN handlers) <= 1
    /\ \A c \in DOMAIN handlers : c = accepted
    /\ (DOMAIN handlers # {}) <=> (server.state = "handling")

\* in delegated mode the second connection is being answered while a third one waits
C9_Witness ==
    /\ mode = "async"
    /\ arrived = 3 /\ accepted = 2
    /\ 2 \in DOMAIN handlers
    /\ handlers[2].pc > 1 /\ Running(handlers[2])

\* C10: in delegated mode, while the accept loop is running it runs on the pool's worker
\* thread, run_async is suspended at its await (it has not completed), the pool has not
\* been shut down, and the event-loop thread is free to run other tasks.
C10_Delegated ==
    mode = "async" /\ server.state \in {"select", "handling"} =>
        /\ server.thread = "worker"
        /\ caller = "await"
        /\ pool = "open"
        /\ loopThread \in {"idle", "other_task"}

\* another task runs on the event loop while the worker thread handles a request
C10_Witness ==
    /\ mode = "async"
    /\ server.state = "handling" /\ server.thread = "worker"
    /\ loopThread = "other_task"

=============================================================================
